---- MODULE Spec2Model ----
(***************************************************************************)
(* Model of backend/sam3_server.py: the SAM3/SAM1 segmentation server.     *)
(*                                                                         *)
(* State: the module-level globals (_model, _processor, _sam3_available,   *)
(* _current_image_state, _current_image_hash), the feature slot that a     *)
(* SamPredictor keeps inside itself, and a record of the request handled   *)
(* last (what it carried, what the handler called, what it answered).      *)
(* The neural backends are opaque: a call of theirs either returns or      *)
(* raises, and a call that raises leaves the backend object as it was.     *)
(* The handlers are coroutines (async def) without a single await, served  *)
(* by one event loop: a handler runs from its first line to its return     *)
(* before another starts, so concurrent clients interleave request by      *)
(* request, and every action below is one whole handler.                   *)
(* Numbers with a fractional part (scores, float mask values) are kept in  *)
(* tenths: 3 stands for 0.3, 10 for 1.0, 2550 for 255.                     *)
(***************************************************************************)
EXTENDS Integers, Sequences, FiniteSets

VARIABLES
    pc,                     \* "startup" | "serving" | "failed" (lifespan);
                            \* "batch" | "done" (batch_generate.py)
    segment_anything_ok,    \* environment: `from segment_anything import ...` works
    _model,                 \* sam3_server.py:41
    _processor,             \* sam3_server.py:42
    _sam3_available,        \* sam3_server.py:45
    _current_image_state,   \* sam3_server.py:43
    _current_image_hash,    \* sam3_server.py:44
    predictor_features,     \* image whose features the SamPredictor object holds
    last,                   \* the request handled last and what the handler did
    input_dir,              \* batch_generate.py: the files of the input folder
    pairs                   \* batch_generate.py: find_image_mask_pairs' result

vars == <<pc, segment_anything_ok, _model, _processor, _sam3_available,
          _current_image_state, _current_image_hash, predictor_features,
          last, input_dir, pairs>>

backend == <<_model, _processor, _sam3_available>>
cache == <<_current_image_state, _current_image_hash, predictor_features>>
batch == <<input_dir, pairs>>

----------------------------------------------------------------------------
(* Bounds *)

MaxMasks == 3           \* most masks a predict call returns (SpecRank)
MaxPoints == 1          \* most points per polarity in one request
MaxFallbackPoints == 2  \* the same, in SpecFallback
MaxPromptPoints == 2    \* the same, in SpecPrompt
MaxFiles == 4           \* most files in the input folder (SpecPairs)

----------------------------------------------------------------------------
(* Values *)

None == [t |-> "None"]
PyTrue == [t |-> "True"]
Raised == [t |-> "raised"]     \* a call that raised instead of returning

Sam3Model == [t |-> "Sam3Image"]
Sam1Model == [t |-> "Sam"]
Sam3Processor == [t |-> "Sam3Processor"]
SamPredictor == [t |-> "SamPredictor"]

\* Decoded images: pixel content (id) and size.
ImageA == [t |-> "Image", id |-> "A", width |-> 3, height |-> 2]
ImageB == [t |-> "Image", id |-> "B", width |-> 2, height |-> 2]
Images == {ImageA, ImageB}

\* Images large enough for the fallback disks to have a radius (SpecFallback).
ImageC == [t |-> "Image", id |-> "C", width |-> 12, height |-> 10]
ImageD == [t |-> "Image", id |-> "D", width |-> 20, height |-> 20]

\* Request payloads: a base64 body, bare or behind a "data:...;base64," prefix.
\* Body "X" is not a decodable image.
Payloads ==
    {[prefix |-> FALSE, body |-> "A"], [prefix |-> TRUE, body |-> "A"],
     [prefix |-> FALSE, body |-> "B"], [prefix |-> FALSE, body |-> "X"]}

Points == {<<10, 10>>}                  \* (x, y) in tenths: (1.0, 1.0)

RECURSIVE SeqsUpTo(_, _)
SeqsUpTo(S, n) ==
    IF n = 0 THEN {<<>>}
    ELSE LET shorter == SeqsUpTo(S, n - 1)
         IN shorter \cup {Append(s, x) : s \in {q \in shorter : Len(q) = n - 1}, x \in S}

PointLists == SeqsUpTo(Points, MaxPoints)

Scores == {3, 6, 9, 10}                 \* tenths

----------------------------------------------------------------------------
(* Helpers of the server *)

\* decode_base64_image: drop the data-URL prefix, decode, open, convert to RGB.
\* Raises (Malformed) when the body is no image.
Malformed == [t |-> "Exception", what |-> "cannot identify image file"]
decode_base64_image(p) ==
    CASE p.body = "A" -> ImageA
      [] p.body = "B" -> ImageB
      [] p.body = "C" -> ImageC
      [] p.body = "D" -> ImageD
      [] OTHER -> Malformed

\* get_image_hash: md5 of the PNG encoding of the decoded image.
get_image_hash(image) == [t |-> "md5", of |-> image.id]

\* What a state-style processor's set_image returns for an image.
Sam3State(image) == [t |-> "Sam3State", image |-> image.id]

\* What SamPredictor.set_image keeps inside the predictor for an image.
PredictorFeatures(image) == [t |-> "features", image |-> image.id]

----------------------------------------------------------------------------
(* Uniform shape of the request record *)

NoRequest ==
    [op |-> "none", image |-> None, points_positive |-> <<>>,
     points_negative |-> <<>>, multimask_output |-> FALSE,
     pre_hash |-> None, pre_state |-> None, pre_features |-> None,
     image_hash |-> None, path |-> "none",
     extract |-> "none", predict |-> "none", predict_state |-> None,
     point_coords |-> <<>>, point_labels |-> <<>>, predict_kwargs |-> None,
     text |-> "none", out |-> None, response |-> None,
     env |-> None, attempts |-> <<>>]

HTTPException(code, detail) ==
    [t |-> "HTTPException", status_code |-> code, detail |-> detail]

SetImageResponse(success, size, message) ==
    [t |-> "SetImageResponse", success |-> success, image_size |-> size,
     message |-> message]

SegmentationResponse(success, masks, scores, message) ==
    [t |-> "SegmentationResponse", success |-> success, masks |-> masks,
     scores |-> scores, message |-> message]

HealthResponse(status, model_loaded, device) ==
    [t |-> "HealthResponse", status |-> status,
     service |-> "sam3-segmentation-server", version |-> "0.1.0",
     model_loaded |-> model_loaded, device |-> device]

----------------------------------------------------------------------------
(* Model management *)

\* What the environment lets each step of load_model do.
LoadEnvs ==
    [torch : BOOLEAN,
     sam3 : {"import_error", "build_error", "processor_error", "ok"},
     sam1 : {"import_error", "no_checkpoint", "build_error",
             "predictor_error", "ok"}]

\* The SAM3 attempt (first try block): the globals after it and whether it
\* returned True.
TrySam3(m, p, a, env) ==
    CASE env.sam3 = "ok" ->
            [returned |-> TRUE, model |-> Sam3Model,
             processor |-> Sam3Processor, available |-> TRUE]
      [] env.sam3 = "processor_error" ->
            [returned |-> FALSE, model |-> Sam3Model,
             processor |-> p, available |-> a]
      [] OTHER ->
            [returned |-> FALSE, model |-> m, processor |-> p, available |-> a]

\* The SAM1 attempt (second try block) and the fallback tail.
TrySam1(m, p, a, env) ==
    CASE env.sam1 = "ok" ->
            [returned |-> TRUE, model |-> Sam1Model,
             processor |-> SamPredictor, available |-> TRUE]
      [] env.sam1 = "predictor_error" ->
            [returned |-> FALSE, model |-> Sam1Model,
             processor |-> p, available |-> FALSE]
      [] OTHER ->   \* import error, checkpoint missing, registry/to() raised
            [returned |-> FALSE, model |-> m, processor |-> p,
             available |-> FALSE]

\* Mutant of load_model_run: SAM1 is tried first and SAM3 only after it.
load_model_run_Sam1First(m, p, a, env) ==
    IF m # None
    THEN [raised |-> FALSE, returned |-> TRUE, model |-> m, processor |-> p,
          available |-> a, attempts |-> <<>>]
    ELSE IF ~env.torch
    THEN [raised |-> TRUE, returned |-> FALSE, model |-> m, processor |-> p,
          available |-> a, attempts |-> <<>>]
    ELSE LET s1 == TrySam1(m, p, a, env)
             s3 == TrySam3(s1.model, s1.processor, s1.available, env)
             r == IF s1.returned THEN s1 ELSE s3
         IN [raised |-> FALSE, returned |-> r.returned, model |-> r.model,
             processor |-> r.processor, available |-> r.available,
             attempts |-> IF s1.returned THEN <<"SAM1">>
                          ELSE <<"SAM1", "SAM3">>]

\* load_model(): [raised, returned, model, processor, available] and the
\* candidates whose try block was entered, in order.
load_model_run(m, p, a, env) ==
    IF m # None
    THEN [raised |-> FALSE, returned |-> TRUE, model |-> m, processor |-> p,
          available |-> a, attempts |-> <<>>]
    ELSE IF ~env.torch      \* get_device(): `import torch` outside any try
    THEN [raised |-> TRUE, returned |-> FALSE, model |-> m, processor |-> p,
          available |-> a, attempts |-> <<>>]
    ELSE LET s3 == TrySam3(m, p, a, env)
             s1 == TrySam1(s3.model, s3.processor, s3.available, env)
             r == IF s3.returned THEN s3 ELSE s1
         IN [raised |-> FALSE, returned |-> r.returned, model |-> r.model,
             processor |-> r.processor, available |-> r.available,
             attempts |-> IF s3.returned THEN <<"SAM3">>
                          ELSE <<"SAM3", "SAM1">>]

\* lifespan(): the one call of load_model at startup.
lifespan ==
    /\ pc = "startup"
    /\ \E env \in LoadEnvs :
        /\ (env.sam1 = "import_error") <=> ~segment_anything_ok
        /\ LET r == load_model_run(_model, _processor, _sam3_available, env)
           IN /\ _model' = r.model
              /\ _processor' = r.processor
              /\ _sam3_available' = r.available
              /\ pc' = IF r.raised THEN "failed" ELSE "serving"
              /\ last' = [NoRequest EXCEPT !.op = "load_model",
                            !.env = env, !.attempts = r.attempts,
                            !.response = IF r.raised
                                         THEN [t |-> "ImportError"]
                                         ELSE [t |-> "bool", v |-> r.returned]]
    /\ UNCHANGED <<segment_anything_ok, cache, batch>>

\* Mutant of BackendActive: only the model is looked at.
BackendActiveModelOnly == _model # None

\* Handlers take the learned path only with all three globals set.
BackendActive == _sam3_available /\ _model # None /\ _processor # None

\* What get_device() can answer.
Devices == {"cuda", "mps", "cpu"}

\* Mutant of health: a health check without a model loads the model again.
health_reloading ==
    /\ pc = "serving"
    /\ \E device \in Devices, env \in LoadEnvs :
        LET r == load_model_run(_model, _processor, _sam3_available, env)
        IN /\ env.torch
           /\ _model' = r.model
           /\ _processor' = r.processor
           /\ _sam3_available' = r.available
           /\ last' = [NoRequest EXCEPT !.op = "health",
                        !.response = HealthResponse(
                            IF r.available THEN "ok" ELSE "fallback",
                            r.model # None /\ r.available,
                            IF r.available THEN device ELSE "none")]
    /\ UNCHANGED <<pc, segment_anything_ok, cache, batch>>

\* health(): reads the globals, asks for the device when a backend is active.
health ==
    /\ pc = "serving"
    /\ \E device \in Devices :
        last' = [NoRequest EXCEPT !.op = "health",
                    !.response = HealthResponse(
                        IF _sam3_available THEN "ok" ELSE "fallback",
                        _model # None /\ _sam3_available,
                        IF _sam3_available THEN device ELSE "none")]
    /\ UNCHANGED <<pc, segment_anything_ok, backend, cache, batch>>

----------------------------------------------------------------------------
(* Embedding cache, as set_image and segment use it *)

\* Mutant of CacheHit: the comparison with the cached fingerprint is lost.
CacheHitNever(image_hash) == FALSE

\* Mutant of CacheHit: an embedding that is cached is taken for the
\* request's, whatever its fingerprint.
CacheHitAnyCached(image_hash) == _current_image_hash # None

\* `_current_image_hash == image_hash`
CacheHit(image_hash) == _current_image_hash = image_hash

\* Mutant of ComputeEmbedding: an embedding already held is kept for the
\* new image.
ComputeEmbeddingStale(image) ==
    IF _current_image_state # None
    THEN [state |-> _current_image_state, features |-> predictor_features]
    ELSE IF _processor = SamPredictor
    THEN [state |-> PyTrue, features |-> PredictorFeatures(image)]
    ELSE [state |-> Sam3State(image), features |-> predictor_features]

\* The branch on isinstance(_processor, SamPredictor) that computes the
\* embedding: what the cache slots hold after it returned.
ComputeEmbedding(image) ==
    IF _processor = SamPredictor
    THEN [state |-> PyTrue, features |-> PredictorFeatures(image)]
    ELSE [state |-> Sam3State(image), features |-> predictor_features]

\* What a handler has done so far: the cache slots it leaves and its calls.
Untouched ==
    [state |-> _current_image_state, hash |-> _current_image_hash,
     features |-> predictor_features, image_hash |-> None,
     path |-> "learned", extract |-> "none", predict |-> "none",
     predict_state |-> None, point_coords |-> <<>>, point_labels |-> <<>>,
     predict_kwargs |-> None, text |-> "none", out |-> None,
     response |-> None]

\* Mutant of Failed: the handler drops the cache when it fails.
FailedClearing(sofar, detail) ==
    [sofar EXCEPT !.state = None, !.hash = None, !.features = None,
        !.response = HTTPException(500, detail)]

\* `except Exception as e: ... raise HTTPException(status_code=500, ...)`:
\* whatever the handler assigned before the exception stays assigned.
Failed(sofar, detail) == [sofar EXCEPT !.response = HTTPException(500, detail)]

\* Mutant of Refresh: the fingerprint is stored before extraction is tried.
RefreshHashFirst(known, image, extract_ok) ==
    LET marked == [known EXCEPT !.hash = known.image_hash]
    IN IF ~segment_anything_ok
       THEN [ok |-> FALSE,
             r |-> Failed(known, "No module named 'segment_anything'")]
       ELSE IF ~extract_ok
       THEN [ok |-> FALSE,
             r |-> Failed([marked EXCEPT !.extract = "raised"],
                          "set_image failed")]
       ELSE LET e == ComputeEmbedding(image)
            IN [ok |-> TRUE,
                r |-> [marked EXCEPT !.extract = "ok", !.state = e.state,
                         !.features = e.features]]

\* The cache refresh shared by set_image (lines 300-323) and segment (lines
\* 368-381), for an image that is not cached: import SamPredictor, extract,
\* store state and hash.  [ok, r]
Refresh(known, image, extract_ok) ==
    IF ~segment_anything_ok
    THEN [ok |-> FALSE,
          r |-> Failed(known, "No module named 'segment_anything'")]
    ELSE IF ~extract_ok
    THEN [ok |-> FALSE,
          r |-> Failed([known EXCEPT !.extract = "raised"], "set_image failed")]
    ELSE LET e == ComputeEmbedding(image)
         IN [ok |-> TRUE,
             r |-> [known EXCEPT !.extract = "ok", !.state = e.state,
                      !.features = e.features, !.hash = known.image_hash]]

\* set_image(request), given whether feature extraction returns.
set_image_run(image_b64, extract_ok) ==
    LET image == decode_base64_image(image_b64)
    IN IF ~BackendActive
       THEN LET sofar == [Untouched EXCEPT !.path = "fallback"]
            IN IF image = Malformed
               THEN Failed(sofar, Malformed.what)
               ELSE [sofar EXCEPT !.response = SetImageResponse(TRUE,
                        <<image.width, image.height>>,
                        "SAM3 not available, using fallback mode")]
       ELSE IF image = Malformed
       THEN Failed(Untouched, Malformed.what)
       ELSE LET known == [Untouched EXCEPT !.image_hash = get_image_hash(image)]
            IN IF CacheHit(known.image_hash)
               THEN [known EXCEPT !.response = SetImageResponse(TRUE,
                        <<image.width, image.height>>, "Image already cached")]
               ELSE LET f == Refresh(known, image, extract_ok)
                    IN IF ~f.ok THEN f.r
                       ELSE [f.r EXCEPT !.response = SetImageResponse(TRUE,
                               <<image.width, image.height>>,
                               "Image embeddings computed successfully")]

\* The request record kept in `last`.
Handled(op, req, r) ==
    [NoRequest EXCEPT !.op = op, !.image = req.image,
        !.points_positive = req.points_positive,
        !.points_negative = req.points_negative,
        !.multimask_output = req.multimask_output,
        !.pre_hash = _current_image_hash,
        !.pre_state = _current_image_state,
        !.pre_features = predictor_features,
        !.image_hash = r.image_hash, !.path = r.path,
        !.extract = r.extract, !.predict = r.predict,
        !.predict_state = r.predict_state,
        !.point_coords = r.point_coords, !.point_labels = r.point_labels,
        !.predict_kwargs = r.predict_kwargs, !.text = r.text,
        !.out = r.out, !.response = r.response]

set_image ==
    /\ pc = "serving"
    /\ \E image_b64 \in Payloads, extract_ok \in BOOLEAN :
        LET r == set_image_run(image_b64, extract_ok)
        IN /\ _current_image_state' = r.state
           /\ _current_image_hash' = r.hash
           /\ predictor_features' = r.features
           /\ last' = Handled("set_image",
                        [image |-> image_b64, points_positive |-> <<>>,
                         points_negative |-> <<>>, multimask_output |-> FALSE],
                        r)
    /\ UNCHANGED <<pc, segment_anything_ok, backend, batch>>

----------------------------------------------------------------------------
(* Masks *)

Pixels(width, height) == (0 .. width - 1) \X (0 .. height - 1)

\* Mutant of MaskArray: the array is allocated as (width, height).
MaskArrayTransposed(dtype, width, height, px) ==
    [dtype |-> dtype, width |-> height, height |-> width, px |-> px]

\* An array of one mask: dtype, size and a value per pixel <<x, y>>.
\* bool arrays hold TRUE/FALSE, the others numbers in tenths.
MaskArray(dtype, width, height, px) ==
    [dtype |-> dtype, width |-> width, height |-> height, px |-> px]

\* Mutant of encode_mask_to_base64: every non-zero value counts as included.
encode_mask_nonzero(mask) ==
    [t |-> "png", width |-> mask.width, height |-> mask.height,
     px |-> IF mask.dtype = "bool"
            THEN [q \in DOMAIN mask.px |-> IF mask.px[q] THEN 255 ELSE 0]
            ELSE [q \in DOMAIN mask.px |-> IF mask.px[q] # 0 THEN 255 ELSE 0]]

\* encode_mask_to_base64: threshold to 0/255 and store as an 8-bit PNG (PNG and
\* base64 lose nothing, so the encoded mask is its 0/255 raster).
encode_mask_to_base64(mask) ==
    [t |-> "png", width |-> mask.width, height |-> mask.height,
     px |-> IF mask.dtype = "bool"
            THEN [q \in DOMAIN mask.px |-> IF mask.px[q] THEN 255 ELSE 0]
            ELSE [q \in DOMAIN mask.px |-> IF mask.px[q] > 5 THEN 255 ELSE 0]]

\* The i-th mask a backend emits for an image: the first i pixels in row
\* order, so that masks emitted at different positions differ.
BackendMask(image, dtype, i) ==
    MaskArray(dtype, image.width, image.height,
        [q \in Pixels(image.width, image.height) |->
            LET k == q[2] * image.width + q[1]
            IN IF dtype = "bool" THEN k < i
               ELSE IF k < i THEN 10 ELSE 0])

\* Outputs of predict / predict_inst: a mask for each score of a list.
Outputs(image, score_lists, dtypes) ==
    {[masks |-> [i \in 1 .. Len(sc) |-> BackendMask(image, dtype, i)],
      scores |-> sc] : sc \in score_lists, dtype \in dtypes}

\* Spec: the backend answers with one mask without multimask_output and with
\* three masks with it ("True: 3 masks, False: 1 mask", line 57).
ServedOutputs ==
    [image \in Images, multimask_output \in BOOLEAN |->
        Outputs(image,
                IF multimask_output THEN {<<3, 9, 6>>} ELSE {<<10>>},
                {"bool"})]

\* SpecRank: every list of up to MaxMasks scores, boolean or float masks.
RankOutputs ==
    [image \in Images, multimask_output \in BOOLEAN |->
        Outputs(image,
                UNION {[1 .. n -> Scores] :
                        n \in IF multimask_output THEN 1 .. MaxMasks ELSE {1}},
                {"bool", "float32"})]

----------------------------------------------------------------------------
(* Ranking of the backend's masks *)

IndexOrders(n) ==
    {f \in [1 .. n -> 1 .. n] : \A i, j \in 1 .. n : f[i] = f[j] => i = j}

Reverse(s) == [i \in 1 .. Len(s) |-> s[Len(s) + 1 - i]]

\* np.argsort(scores) with the default kind ("quicksort", not stable): any
\* index order that puts the scores in ascending order.
argsort(scores) ==
    {f \in IndexOrders(Len(scores)) :
        \A i \in 1 .. Len(scores) - 1 : scores[f[i]] <= scores[f[i + 1]]}

\* Mutant of SortedIndices: the reversal is missing.
SortedIndicesAscending(ascending) == ascending

\* `sorted_indices = np.argsort(scores)[::-1]`
SortedIndices(ascending) == Reverse(ascending)

\* `a[sorted_indices]`
Take(a, sorted_indices) ==
    [i \in 1 .. Len(sorted_indices) |-> a[sorted_indices[i]]]

\* Lines 418-431: rank the masks, encode them and build the response.
RankedResponse(out, ascending) ==
    LET sorted_indices == SortedIndices(ascending)
        masks == Take(out.masks, sorted_indices)
        scores == Take(out.scores, sorted_indices)
    IN SegmentationResponse(TRUE,
            [i \in 1 .. Len(masks) |-> encode_mask_to_base64(masks[i])],
            scores, "Generated mask(s)")

----------------------------------------------------------------------------
(* Fallback mask *)

\* int(v) for v in tenths: truncation towards zero.
IntTrunc(v) == IF v >= 0 THEN v \div 10 ELSE -((-v) \div 10)

Min(a, b) == IF a <= b THEN a ELSE b

\* int(min(width, height) * 0.15) and int(min(width, height) * 0.1)
PositiveRadius(width, height) == (Min(width, height) * 15) \div 100
NegativeRadius(width, height) == (Min(width, height) * 10) \div 100

\* Mutant of InDisk: the rim of the disk is left out.
InDiskStrict(q, pt, radius) ==
    LET dx == q[1] - IntTrunc(pt[1])
        dy == q[2] - IntTrunc(pt[2])
    IN dx * dx + dy * dy < radius * radius

\* `dist <= radius` around the truncated point
InDisk(q, pt, radius) ==
    LET dx == q[1] - IntTrunc(pt[1])
        dy == q[2] - IntTrunc(pt[2])
    IN dx * dx + dy * dy <= radius * radius

\* One loop `mask[dist <= radius] = value` over the points.
RECURSIVE Paint(_, _, _, _)
Paint(px, pts, radius, value) ==
    IF pts = <<>> THEN px
    ELSE Paint([q \in DOMAIN px |->
                    IF InDisk(q, Head(pts), radius) THEN value ELSE px[q]],
               Tail(pts), radius, value)

\* Mutant of NoPoints: the check for an empty prompt is missing.
NoPointsUnchecked(all_points) == FALSE

\* `len(all_points) == 0`
NoPoints(all_points) == Len(all_points) = 0

\* Mutant of generate_fallback_mask: a prompt without a positive point is
\* rejected like an empty one.
generate_fallback_mask_NeedsPositive(req) ==
    LET image == decode_base64_image(req.image)
    IN IF image = Malformed
       THEN SegmentationResponse(FALSE, <<>>, <<>>, Malformed.what)
       ELSE IF NoPoints(req.points_positive)
       THEN SegmentationResponse(FALSE, <<>>, <<>>, "No points provided")
       ELSE LET zeros == [q \in Pixels(image.width, image.height) |-> 0]
                pos == Paint(zeros, req.points_positive,
                             PositiveRadius(image.width, image.height), 2550)
                neg == Paint(pos, req.points_negative,
                             NegativeRadius(image.width, image.height), 0)
                mask == MaskArray("uint8", image.width, image.height, neg)
            IN SegmentationResponse(TRUE, <<encode_mask_to_base64(mask)>>,
                    <<5>>, "Fallback mask generated (SAM3 not available)")

\* Mutant of generate_fallback_mask: the negative points are carved first
\* and the positive disks painted over them.
generate_fallback_mask_PositiveLast(req) ==
    LET image == decode_base64_image(req.image)
    IN IF image = Malformed
       THEN SegmentationResponse(FALSE, <<>>, <<>>, Malformed.what)
       ELSE IF NoPoints(req.points_positive \o req.points_negative)
       THEN SegmentationResponse(FALSE, <<>>, <<>>, "No points provided")
       ELSE LET zeros == [q \in Pixels(image.width, image.height) |-> 0]
                neg == Paint(zeros, req.points_negative,
                             NegativeRadius(image.width, image.height), 0)
                pos == Paint(neg, req.points_positive,
                             PositiveRadius(image.width, image.height), 2550)
                mask == MaskArray("uint8", image.width, image.height, pos)
            IN SegmentationResponse(TRUE, <<encode_mask_to_base64(mask)>>,
                    <<5>>, "Fallback mask generated (SAM3 not available)")

\* generate_fallback_mask(request)
generate_fallback_mask(req) ==
    LET image == decode_base64_image(req.image)
    IN IF image = Malformed
       THEN SegmentationResponse(FALSE, <<>>, <<>>, Malformed.what)
       ELSE IF NoPoints(req.points_positive \o req.points_negative)
       THEN SegmentationResponse(FALSE, <<>>, <<>>, "No points provided")
       ELSE LET zeros == [q \in Pixels(image.width, image.height) |-> 0]
                pos == Paint(zeros, req.points_positive,
                             PositiveRadius(image.width, image.height), 2550)
                neg == Paint(pos, req.points_negative,
                             NegativeRadius(image.width, image.height), 0)
                mask == MaskArray("uint8", image.width, image.height, neg)
            IN SegmentationResponse(TRUE, <<encode_mask_to_base64(mask)>>,
                    <<5>>, "Fallback mask generated (SAM3 not available)")

----------------------------------------------------------------------------
(* segment *)

Requests ==
    [image : Payloads, points_positive : PointLists,
     points_negative : PointLists, multimask_output : BOOLEAN]

\* Mutant of PointLabels: the labels of the negative points come first.
PointLabelsNegativeFirst(req) ==
    [i \in 1 .. Len(req.points_negative) |-> 0]
        \o [i \in 1 .. Len(req.points_positive) |-> 1]

\* `[1] * len(points_positive) + [0] * len(points_negative)`
PointLabels(req) ==
    [i \in 1 .. Len(req.points_positive) |-> 1]
        \o [i \in 1 .. Len(req.points_negative) |-> 0]

\* Mutant of PredictState: predict reads the slots as they were when the
\* request arrived.
PredictStateStale(state, features) ==
    IF _processor = SamPredictor THEN predictor_features
    ELSE _current_image_state

\* Mutant of PredictFailed: a failed predict invalidates the cache.
PredictFailedInvalidating(called) ==
    Failed([called EXCEPT !.predict = "raised", !.state = None,
              !.hash = None, !.features = None], "predict failed")

\* predict raised: the handler's except block answers (lines 433-437).
PredictFailed(called) ==
    Failed([called EXCEPT !.predict = "raised"], "predict failed")

\* The embedding a predict call works from when the cache slots hold
\* (state, features): SamPredictor.predict reads the predictor's own
\* features, predict_inst is handed _current_image_state.
PredictState(state, features) ==
    IF _processor = SamPredictor THEN features ELSE state

\* Lines 383-437 of segment, after the cache was checked or refreshed:
\* the empty-prompt check, predict and the ranked response.
Prompt(req, ensured, predicted, ascending) ==
    LET all_points == req.points_positive \o req.points_negative
    IN IF NoPoints(all_points)
       THEN [ensured EXCEPT !.response =
                SegmentationResponse(FALSE, <<>>, <<>>, "No points provided")]
       ELSE IF ~segment_anything_ok
       THEN Failed(ensured, "No module named 'segment_anything'")
       ELSE LET called == [ensured EXCEPT
                              !.point_coords = all_points,
                              !.point_labels = PointLabels(req),
                              !.predict_kwargs =
                                  [multimask_output |-> req.multimask_output],
                              !.predict_state =
                                  PredictState(ensured.state, ensured.features)]
            IN IF predicted = Raised
               THEN PredictFailed(called)
               ELSE [called EXCEPT !.predict = "ok", !.out = predicted,
                       !.response = RankedResponse(predicted, ascending)]

\* segment(request) with an active backend, given what the environment does:
\* extract_ok - feature extraction returns; predicted - Raised or the
\* backend's output; ascending - the index order np.argsort returns.
segment_run(req, extract_ok, predicted, ascending) ==
    LET image == decode_base64_image(req.image)
    IN IF image = Malformed
       THEN Failed(Untouched, Malformed.what)
       ELSE LET known == [Untouched EXCEPT !.image_hash = get_image_hash(image)]
            IN IF CacheHit(known.image_hash)
               THEN Prompt(req, known, predicted, ascending)
               ELSE LET f == Refresh(known, image, extract_ok)
                    IN IF ~f.ok THEN f.r
                       ELSE Prompt(req, f.r, predicted, ascending)

\* The image an embedding was computed from.
ImageOf(embedding) ==
    CHOOSE image \in Images \cup {ImageC, ImageD} : image.id = embedding.image

\* What predict can do when it works from `embedding`: raise, or answer
\* with masks of the image the embedding was computed from.
Predictions(embedding, multimask_output, outputs) ==
    IF embedding \in {None, PyTrue} THEN {Raised}
    ELSE {Raised} \cup outputs[ImageOf(embedding), multimask_output]

\* segment: requests from `requests`, backend outputs from `outputs`.
\* The environment's answers are drawn only for the calls the handler makes.
segment_with(requests, outputs) ==
    /\ pc = "serving"
    /\ \E req \in requests :
        IF ~BackendActive
        THEN /\ last' = Handled("segment", req,
                            [Untouched EXCEPT !.path = "fallback",
                               !.response = generate_fallback_mask(req)])
             /\ UNCHANGED cache
        ELSE LET image == decode_base64_image(req.image)
                 extracts == image # Malformed
                                /\ ~CacheHit(get_image_hash(image))
                                /\ segment_anything_ok
             IN \E extract_ok \in IF extracts THEN BOOLEAN ELSE {TRUE} :
                 LET reached == segment_run(req, extract_ok, Raised, <<>>)
                 IN \E predicted \in
                        IF reached.predict = "raised"
                        THEN Predictions(reached.predict_state,
                                         req.multimask_output, outputs)
                        ELSE {Raised} :
                     \E ascending \in IF predicted = Raised THEN {<<>>}
                                      ELSE argsort(predicted.scores) :
                         LET r == segment_run(req, extract_ok, predicted,
                                              ascending)
                         IN /\ _current_image_state' = r.state
                            /\ _current_image_hash' = r.hash
                            /\ predictor_features' = r.features
                            /\ last' = Handled("segment", req, r)
    /\ UNCHANGED <<pc, segment_anything_ok, backend, batch>>

segment == segment_with(Requests, ServedOutputs)

----------------------------------------------------------------------------
(* segment_with_text *)

\* What set_text_prompt answers for an image: nothing found, or two masks
\* scored 0.3 and 0.9.
TextOutputs ==
    [image \in Images |->
        {[masks |-> <<>>, scores |-> <<>>]}
            \cup Outputs(image, {<<3, 9>>}, {"bool"})]

Thresholds == {5}               \* confidence_threshold, tenths (default 0.5)

\* `_current_image_state = _processor.set_image(pil_image)`: a state-style
\* processor returns the state; SamPredictor.set_image keeps the features in
\* the predictor and returns nothing.
ProcessorSetImage(image) ==
    IF _processor = SamPredictor
    THEN [state |-> None, features |-> PredictorFeatures(image)]
    ELSE [state |-> Sam3State(image), features |-> predictor_features]

FoundMessage(n) ==
    CASE n = 0 -> "Found 0 object(s)"
      [] n = 1 -> "Found 1 object(s)"
      [] OTHER -> "Found 2 object(s)"

\* Lines 530-554: the answer built from the processor's output.
TextResponse(output, confidence_threshold) ==
    IF Len(output.masks) = 0
    THEN SegmentationResponse(TRUE, <<>>, <<>>,
            "No objects found matching the prompt")
    ELSE LET kept == SelectSeq([i \in 1 .. Len(output.scores) |-> i],
                        LAMBDA i : output.scores[i] >= confidence_threshold)
         IN SegmentationResponse(TRUE,
                [k \in 1 .. Len(kept) |->
                    encode_mask_to_base64(output.masks[kept[k]])],
                [k \in 1 .. Len(kept) |-> output.scores[kept[k]]],
                FoundMessage(Len(kept)))

\* segment_with_text(image, prompt, confidence_threshold), given whether
\* set_image returns and what the text prompt calls answer (Raised or the
\* output).
segment_with_text_run(image_b64, confidence_threshold, extract_ok, output) ==
    IF _model = None \/ _processor = None
    THEN [Untouched EXCEPT !.path = "unavailable",
            !.response = HTTPException(503, "Model not loaded")]
    ELSE LET image == decode_base64_image(image_b64)
         IN IF image = Malformed
            THEN Failed(Untouched, Malformed.what)
            ELSE LET known == [Untouched EXCEPT
                                  !.image_hash = get_image_hash(image)]
                     e == ProcessorSetImage(image)
                     ensured ==
                        IF CacheHit(known.image_hash) THEN known
                        ELSE [known EXCEPT !.extract = "ok",
                                !.state = e.state, !.features = e.features,
                                !.hash = known.image_hash]
                 IN IF ~CacheHit(known.image_hash) /\ ~extract_ok
                    THEN Failed([known EXCEPT !.extract = "raised"],
                                "set_image failed")
                    ELSE IF output = Raised
                    THEN Failed([ensured EXCEPT !.text = "raised"],
                                "text prompt failed")
                    ELSE [ensured EXCEPT !.text = "ok", !.out = output,
                            !.response =
                                TextResponse(output, confidence_threshold)]

segment_with_text ==
    /\ pc = "serving"
    /\ \E image_b64 \in Payloads, confidence_threshold \in Thresholds :
        LET image == decode_base64_image(image_b64)
            extracts == /\ _model # None /\ _processor # None
                        /\ image # Malformed
                        /\ ~CacheHit(get_image_hash(image))
        IN \E extract_ok \in IF extracts THEN BOOLEAN ELSE {TRUE} :
            \E output \in
                    IF /\ _model # None /\ _processor # None
                       /\ image # Malformed /\ extract_ok
                    THEN {Raised} \cup TextOutputs[image]
                    ELSE {Raised} :
                LET r == segment_with_text_run(image_b64,
                            confidence_threshold, extract_ok, output)
                IN /\ _current_image_state' = r.state
                   /\ _current_image_hash' = r.hash
                   /\ predictor_features' = r.features
                   /\ last' = Handled("segment_with_text",
                                [image |-> image_b64,
                                 points_positive |-> <<>>,
                                 points_negative |-> <<>>,
                                 multimask_output |-> FALSE], r)
    /\ UNCHANGED <<pc, segment_anything_ok, backend, batch>>

----------------------------------------------------------------------------

Init ==
    /\ pc = "startup"
    /\ segment_anything_ok \in BOOLEAN
    /\ _model = None
    /\ _processor = None
    /\ _sam3_available = FALSE
    /\ _current_image_state = None
    /\ _current_image_hash = None
    /\ predictor_features = None
    /\ last = NoRequest
    /\ input_dir = {}
    /\ pairs = <<>>

Next ==
    \/ lifespan
    \/ health
    \/ set_image
    \/ segment
    \/ segment_with_text

Spec == Init /\ [][Next]_vars

----------------------------------------------------------------------------
(* Ranking specification: the first segment request of a serving process *)
(* with an active backend, the cache empty or holding the request's image; *)
(* the backend's outputs range over every list of up to MaxMasks scored    *)
(* masks.                                                                  *)

InitRank ==
    /\ pc = "serving"
    /\ segment_anything_ok = TRUE
    /\ _sam3_available = TRUE
    /\ \E b \in {<<Sam3Model, Sam3Processor>>, <<Sam1Model, SamPredictor>>},
          cached \in BOOLEAN :
        /\ _model = b[1]
        /\ _processor = b[2]
        /\ _current_image_hash =
                IF cached THEN get_image_hash(ImageA) ELSE None
        /\ _current_image_state =
                IF ~cached THEN None
                ELSE IF b[2] = SamPredictor THEN PyTrue ELSE Sam3State(ImageA)
        /\ predictor_features =
                IF cached /\ b[2] = SamPredictor THEN PredictorFeatures(ImageA)
                ELSE None
    /\ last = NoRequest
    /\ input_dir = {}
    /\ pairs = <<>>

RankRequests ==
    {[image |-> [prefix |-> FALSE, body |-> "A"], points_positive |-> <<pt>>,
      points_negative |-> <<>>, multimask_output |-> mm] :
        pt \in Points, mm \in BOOLEAN}

segment_rank ==
    /\ last.op = "none"
    /\ segment_with(RankRequests, RankOutputs)

SpecRank == InitRank /\ [][segment_rank]_vars

----------------------------------------------------------------------------
(* Prompt specification: the first segment request of a serving process    *)
(* with an active backend, with up to MaxPromptPoints points of each       *)
(* polarity drawn from two different points.                               *)

PromptPoints == {<<10, 10>>, <<25, 7>>}     \* (1.0, 1.0) and (2.5, 0.7)

PromptRequests ==
    [image : {[prefix |-> FALSE, body |-> "A"]},
     points_positive : SeqsUpTo(PromptPoints, MaxPromptPoints),
     points_negative : SeqsUpTo(PromptPoints, MaxPromptPoints),
     multimask_output : BOOLEAN]

segment_prompt ==
    /\ last.op = "none"
    /\ segment_with(PromptRequests, ServedOutputs)

SpecPrompt == InitRank /\ [][segment_prompt]_vars

----------------------------------------------------------------------------
(* Encoding specification: the first segment request of a serving process  *)
(* with an active backend, for the 2x2 image; the backend answers with one *)
(* mask of any content: boolean, float (-1.0, 0, 0.3, 0.5, 0.6, 1.0) or     *)
(* 8-bit (0, 1, 255).                                                      *)

MaskValues ==
    [bool |-> BOOLEAN, float32 |-> {-10, 0, 3, 5, 6, 10},
     uint8 |-> {0, 10, 2550}]

EncodeOutputs ==
    [image \in Images, multimask_output \in BOOLEAN |->
        IF image # ImageB THEN {}
        ELSE UNION {
                {[masks |-> <<MaskArray(dtype, image.width, image.height, px)>>,
                  scores |-> <<10>>] :
                    px \in [Pixels(image.width, image.height) -> MaskValues[dtype]]} :
                dtype \in {"bool", "float32", "uint8"}}]

EncodeRequests ==
    {[image |-> [prefix |-> FALSE, body |-> "B"], points_positive |-> <<pt>>,
      points_negative |-> <<>>, multimask_output |-> FALSE] : pt \in Points}

segment_encode ==
    /\ last.op = "none"
    /\ segment_with(EncodeRequests, EncodeOutputs)

SpecEncode == InitRank /\ [][segment_encode]_vars

----------------------------------------------------------------------------
(* Fallback specification: the first segment request of a serving process  *)
(* whose candidates all failed, on images with room for the disks, with up *)
(* to MaxFallbackPoints points of each polarity, whole and fractional.     *)

InitFallback ==
    /\ pc = "serving"
    /\ segment_anything_ok = FALSE
    /\ _model = None
    /\ _processor = None
    /\ _sam3_available = FALSE
    /\ _current_image_state = None
    /\ _current_image_hash = None
    /\ predictor_features = None
    /\ last = NoRequest
    /\ input_dir = {}
    /\ pairs = <<>>

\* (5, 5), its neighbour (6, 5) and (5.5, 5.7), in tenths.
FallbackPoints == {<<50, 50>>, <<60, 50>>, <<55, 57>>}

FallbackRequests ==
    [image : {[prefix |-> FALSE, body |-> "C"], [prefix |-> FALSE, body |-> "D"]},
     points_positive : SeqsUpTo(FallbackPoints, MaxFallbackPoints),
     points_negative : SeqsUpTo(FallbackPoints, MaxFallbackPoints),
     multimask_output : BOOLEAN]

segment_fallback ==
    /\ last.op = "none"
    /\ segment_with(FallbackRequests, ServedOutputs)

SpecFallback == InitFallback /\ [][segment_fallback]_vars

----------------------------------------------------------------------------
(* batch_generate.py: find_image_mask_pairs *)

\* The file named base + ("_mask" if mask) + "." + ext; no base contains
\* "_mask", so the stem without "_mask" is the base.
File(base, mask, ext) == [base |-> base, mask |-> mask, ext |-> ext]

FileNames ==
    {File(b, FALSE, "png") : b \in {"original_image", "original", "image",
                                    "image1"}}
        \cup {File(b, TRUE, "png") : b \in {"Object_1", "Object_2", "image",
                                            "image1", "original_image"}}
        \cup {File("photo", FALSE, "jpg"), File("photo", TRUE, "png")}

Folders == {d \in SUBSET FileNames : Cardinality(d) <= MaxFiles}

\* The orders in which the folder can be listed (glob promises none).
Listings(dir) ==
    {l \in [1 .. Cardinality(dir) -> dir] :
        \A i, j \in 1 .. Cardinality(dir) : l[i] = l[j] => i = j}

Pair(image_path, mask_path, name) ==
    [image_path |-> image_path, mask_path |-> mask_path, name |-> name]

\* Lines 63-70: original_image.png, or the first of original.png, image.png,
\* source.png that exists.
Original(dir) ==
    IF File("original_image", FALSE, "png") \in dir
    THEN File("original_image", FALSE, "png")
    ELSE IF File("original", FALSE, "png") \in dir
    THEN File("original", FALSE, "png")
    ELSE IF File("image", FALSE, "png") \in dir
    THEN File("image", FALSE, "png")
    ELSE IF File("source", FALSE, "png") \in dir
    THEN File("source", FALSE, "png")
    ELSE File("original_image", FALSE, "png")

\* find_image_mask_pairs(input_dir), the folder listed in the order `listing`.
find_image_mask_pairs(dir, listing) ==
    LET original == Original(dir)
        masks == SelectSeq(listing, LAMBDA f :
                    /\ f.mask /\ f.ext = "png"
                    /\ f.base \notin {"original_image", "original"})
        pattern1 ==
            IF original \in dir
            THEN [i \in 1 .. Len(masks) |->
                    Pair(original, masks[i], masks[i].base)]
            ELSE <<>>
        pngs == SelectSeq(listing, LAMBDA f :
                    /\ f.ext = "png" /\ ~f.mask
                    /\ File(f.base, TRUE, "png") \in dir)
        pattern2 ==
            [i \in 1 .. Len(pngs) |->
                Pair(pngs[i], File(pngs[i].base, TRUE, "png"), pngs[i].base)]
        jpgs == SelectSeq(listing, LAMBDA f :
                    /\ f.ext = "jpg" /\ ~f.mask
                    /\ File(f.base, TRUE, "png") \in dir)
        pattern3 ==
            [i \in 1 .. Len(jpgs) |->
                Pair(jpgs[i], File(jpgs[i].base, TRUE, "png"), jpgs[i].base)]
    IN IF pattern1 # <<>> THEN pattern1
       ELSE IF pattern2 # <<>> THEN pattern2
       ELSE pattern3

\* main(): `pairs = find_image_mask_pairs(input_dir)`
batch_main ==
    /\ pc = "batch"
    /\ \E listing \in Listings(input_dir) :
        pairs' = find_image_mask_pairs(input_dir, listing)
    /\ pc' = "done"
    /\ UNCHANGED <<segment_anything_ok, backend, cache, last, input_dir>>

InitPairs ==
    /\ pc = "batch"
    /\ segment_anything_ok = FALSE
    /\ _model = None
    /\ _processor = None
    /\ _sam3_available = FALSE
    /\ _current_image_state = None
    /\ _current_image_hash = None
    /\ predictor_features = None
    /\ last = NoRequest
    /\ input_dir \in Folders
    /\ pairs = <<>>

SpecPairs == InitPairs /\ [][batch_main]_vars

----------------------------------------------------------------------------
(* Vocabulary of the properties *)

IsRequest(r) == r.op \in {"set_image", "segment"}

IsHTTP500(resp) == resp.t = "HTTPException" /\ resp.status_code = 500

\* The request is answered as a failure that carries no mask.
FailsWithoutMasks(resp) ==
    \/ IsHTTP500(resp)
    \/ /\ resp.t = "SegmentationResponse"
       /\ ~resp.success
       /\ resp.masks = <<>>
       /\ resp.scores = <<>>

NoPointsProvided == SegmentationResponse(FALSE, <<>>, <<>>, "No points provided")

EmptyPrompt(r) ==
    r.op = "segment" /\ r.points_positive = <<>> /\ r.points_negative = <<>>

\* The images the cache holds an embedding of, wherever it is kept.
HeldEmbeddings(state, features) ==
    (IF state # None /\ state # PyTrue THEN {state.image} ELSE {})
        \cup (IF features # None THEN {features.image} ELSE {})

\* The embedding of `image` as a predict call of the active backend reads it.
EmbeddingOf(image) ==
    IF _processor = SamPredictor THEN PredictorFeatures(image)
    ELSE Sam3State(image)

Performed(r) == IF r.extract = "ok" THEN 1 ELSE 0

\* The request found its fingerprint cached or cached it itself.
Ensured(r) ==
    /\ IsRequest(r) /\ r.path = "learned" /\ r.image_hash # None
    /\ (r.extract = "ok" \/ (r.extract = "none" /\ r.pre_hash = r.image_hash))

----------------------------------------------------------------------------
(* C1..C10 *)

\* C1: with an active backend, a set_image or segment request invokes feature
\* extraction only when its fingerprint differs from the cached one; of two
\* consecutive requests with the same fingerprint the second extracts nothing
\* once the first has the embedding cached, and the two together perform
\* feature extraction at most once - exactly once when the fingerprint was
\* not cached before them and no call raised.
C1_ExtractOnlyOnNewFingerprint ==
    [][ /\ last'.extract # "none" =>
            /\ BackendActive
            /\ last'.image_hash # None
            /\ last'.image_hash # _current_image_hash
        /\ (IsRequest(last) /\ IsRequest(last') /\ last.image_hash # None
                /\ last'.image_hash = last.image_hash) =>
            /\ Ensured(last) => last'.extract = "none"
            /\ Performed(last) + Performed(last') <= 1
            /\ (last.pre_hash # last.image_hash /\ Ensured(last)
                    /\ Ensured(last')) =>
                  Performed(last) + Performed(last') = 1
      ]_vars

\* C1 witness: a segment request right after the embedding of its image was
\* cached: it predicts without extracting.
C1_Witness ==
    /\ last.op = "segment"
    /\ last.pre_hash = last.image_hash
    /\ last.image_hash # None
    /\ last.extract = "none"
    /\ last.predict = "ok"

\* C2: the cache holds an embedding of at most one image, the one of the
\* cached fingerprint; after a successful set_image or segment request whose
\* fingerprint differs from the cached one it holds the new fingerprint and
\* the embedding of the new image only.
C2_SingleSlot ==
    /\ Cardinality(HeldEmbeddings(_current_image_state, predictor_features)) <= 1
    /\ HeldEmbeddings(_current_image_state, predictor_features) =
            IF _current_image_hash = None THEN {}
            ELSE {_current_image_hash.of}
    /\ (/\ IsRequest(last) /\ last.path = "learned"
        /\ last.response.t # "HTTPException" /\ last.response.success
        /\ last.image_hash # last.pre_hash) =>
            /\ _current_image_hash = last.image_hash
            /\ _current_image_hash = get_image_hash(decode_base64_image(last.image))
            /\ HeldEmbeddings(_current_image_state, predictor_features) =
                    {decode_base64_image(last.image).id}

\* C2 witness: a successful request replaced the cached image by another.
C2_Witness ==
    /\ IsRequest(last)
    /\ last.response.t # "HTTPException" /\ last.response.success
    /\ last.pre_hash # None
    /\ last.image_hash # last.pre_hash
    /\ _current_image_hash = last.image_hash

\* C3: every predict call of a segment request works from the embedding of
\* the image that request carries.
C3_PredictUsesRequestImage ==
    (last.op = "segment" /\ last.predict # "none") =>
        last.predict_state = EmbeddingOf(decode_base64_image(last.image))

\* C3 witness: predict ran for an image other than the one cached before.
C3_Witness ==
    /\ last.op = "segment"
    /\ last.predict = "ok"
    /\ last.pre_hash # None
    /\ last.pre_hash # last.image_hash

\* C4: a segment request without any point always fails and returns no mask,
\* on the learned and on the fallback path; predict is never called for it, and
\* whenever its image decodes and (learned path) the embedding is cached, the
\* failure is the "No points provided" response (success=false).
C4_EmptyPromptFails ==
    EmptyPrompt(last) =>
        /\ FailsWithoutMasks(last.response)
        /\ last.predict = "none"
        /\ (/\ decode_base64_image(last.image) # Malformed
            /\ (last.path = "fallback" \/ Ensured(last))) =>
                last.response = NoPointsProvided

\* C4 witness: the learned path rejected an empty prompt.
C4_Witness ==
    /\ EmptyPrompt(last)
    /\ last.path = "learned"
    /\ last.response = NoPointsProvided

\* C5: a segment request rejected for its empty point set leaves the cached
\* fingerprint and the cached embedding as they were.
C5_InvalidPromptNoMutation ==
    (EmptyPrompt(last) /\ last.response = NoPointsProvided) =>
        /\ _current_image_hash = last.pre_hash
        /\ _current_image_state = last.pre_state
        /\ predictor_features = last.pre_features

\* C6: a set_image or segment request whose image cannot be decoded fails,
\* the failure is reported, and it changes neither the cache nor the backend.
C6_MalformedImageNoMutation ==
    [][ (IsRequest(last') /\ decode_base64_image(last'.image) = Malformed) =>
            /\ cache' = cache
            /\ backend' = backend
            /\ last'.image_hash = None /\ last'.extract = "none"
            /\ last'.predict = "none"
            /\ FailsWithoutMasks(last'.response)
      ]_vars

\* C6 witness: an undecodable segment request met a filled cache.
C6_Witness ==
    /\ last.op = "segment"
    /\ decode_base64_image(last.image) = Malformed
    /\ last.path = "learned"
    /\ last.pre_hash # None
    /\ IsHTTP500(last.response)

\* C7: when feature extraction raises in set_image or segment, the cached
\* fingerprint and the cached embedding keep their values and the request is
\* answered with an error.
C7_ExtractionFailureKeepsCache ==
    [][ (IsRequest(last') /\ last'.extract = "raised") =>
            /\ _current_image_hash' = _current_image_hash
            /\ _current_image_state' = _current_image_state
            /\ predictor_features' = predictor_features
            /\ IsHTTP500(last'.response)
            /\ last'.predict = "none"
      ]_vars

\* C7 witness: extraction raised while another image was cached.
C7_Witness ==
    /\ IsRequest(last)
    /\ last.extract = "raised"
    /\ last.pre_hash # None
    /\ _current_image_hash = last.pre_hash

\* C8: when predict raises, the request is reported as failed and the
\* fingerprint and embedding cached when predict was called stay cached; a
\* segment request for the same image that follows extracts nothing.
C8_PredictFailureKeepsCache ==
    [][ /\ last'.predict = "raised" =>
            /\ IsHTTP500(last'.response)
            /\ _current_image_hash' = last'.image_hash
            /\ HeldEmbeddings(_current_image_state', predictor_features') =
                    {decode_base64_image(last'.image).id}
            /\ last'.extract = "none" => cache' = cache
        /\ (last.predict = "raised" /\ last'.op = "segment"
                /\ last'.image_hash = last.image_hash) =>
            last'.extract = "none"
      ]_vars

\* C8 witness: predict raised right after the embedding was computed.
C8_Witness ==
    /\ last.op = "segment"
    /\ last.predict = "raised"
    /\ last.extract = "ok"
    /\ _current_image_hash = last.image_hash

\* The response ranks the backend's output by the index order f.
RankedBy(f, out, resp) ==
    \A i \in 1 .. Len(out.scores) :
        /\ resp.scores[i] = out.scores[f[i]]
        /\ resp.masks[i] = encode_mask_to_base64(out.masks[f[i]])

\* C9: segment returns the backend's (mask, score) pairs, all of them and no
\* other, in descending order of score, the masks reordered like the scores.
C9_RankedPermutation ==
    (last.op = "segment" /\ last.predict = "ok") =>
        LET out == last.out
            resp == last.response
            n == Len(out.scores)
        IN /\ resp.t = "SegmentationResponse" /\ resp.success
           /\ Len(resp.masks) = n /\ Len(resp.scores) = n
           /\ \E f \in IndexOrders(n) : RankedBy(f, out, resp)
           /\ \A i \in 1 .. n - 1 : resp.scores[i] >= resp.scores[i + 1]
           /\ out.scores = <<3, 9, 6>> => resp.scores = <<9, 6, 3>>
           /\ out.scores = <<10>> => resp.scores = <<10>> /\ Len(resp.masks) = 1

\* C9 witness: the backend scored its masks 0.3, 0.9, 0.6.
C9_Witness ==
    /\ last.op = "segment"
    /\ last.predict = "ok"
    /\ last.out.scores = <<3, 9, 6>>
    /\ last.response.scores = <<9, 6, 3>>

\* C10: masks with equal scores keep the order in which the backend emitted
\* them.
C10_StableTies ==
    (last.op = "segment" /\ last.predict = "ok") =>
        \E f \in IndexOrders(Len(last.out.scores)) :
            /\ RankedBy(f, last.out, last.response)
            /\ \A i, j \in 1 .. Len(last.out.scores) :
                (i < j /\ last.response.scores[i] = last.response.scores[j])
                    => f[i] < f[j]

----------------------------------------------------------------------------
(* C11..C20 *)

\* The request a record of `last` was made with.
RequestOf(r) ==
    [image |-> r.image, points_positive |-> r.points_positive,
     points_negative |-> r.points_negative,
     multimask_output |-> r.multimask_output]

\* C11: while the selector's committed state is none (_sam3_available is
\* false), every segment request is answered by generate_fallback_mask alone:
\* the answer is the synthesizer's answer for the request, neither feature
\* extraction nor predict is called, and the cache slots keep their values.
C11_FallbackOnly ==
    [][ (last'.op = "segment" /\ ~_sam3_available) =>
            /\ last'.path = "fallback"
            /\ last'.extract = "none"
            /\ last'.predict = "none"
            /\ last'.image_hash = None
            /\ cache' = cache
            /\ last'.response = generate_fallback_mask(RequestOf(last'))
      ]_vars

\* C11 witness: the fallback answered although a model object was left
\* behind by a candidate that failed part-way.
C11_Witness ==
    /\ last.op = "segment"
    /\ ~_sam3_available
    /\ _model # None
    /\ last.path = "fallback"
    /\ last.response.success

\* C12: every response of segment carries a degraded status, true exactly
\* when generate_fallback_mask produced the response.
C12_DegradedStatus ==
    (last.op = "segment" /\ last.response.t = "SegmentationResponse") =>
        /\ "degraded" \in DOMAIN last.response
        /\ last.response.degraded = (last.path = "fallback")

\* C13: load_model never raises: whatever is missing in the environment, it
\* returns, and the process goes on to serve (with a backend or in the none
\* state).
C13_LoadModelNeverRaises ==
    /\ pc # "failed"
    /\ last.op = "load_model" =>
        /\ last.response.t = "bool"
        /\ pc = "serving"

\* A candidate initializes when torch is there and every step of its try
\* block returns.
Sam3Initializes(env) == env.torch /\ env.sam3 = "ok"
Sam1Initializes(env) == env.torch /\ env.sam1 = "ok"

\* The backend the handlers work with.
ActiveBackend ==
    IF ~BackendActive THEN "none"
    ELSE IF _model = Sam3Model /\ _processor = Sam3Processor THEN "SAM3"
    ELSE IF _model = Sam1Model /\ _processor = SamPredictor THEN "SAM1"
    ELSE "mixed"

\* C14: load_model tries SAM3 first and SAM1 only after SAM3 failed, and
\* commits to the first candidate that initializes: SAM3 whenever SAM3
\* initializes, SAM1 whenever SAM3 fails and SAM1 initializes, none only when
\* both fail.
C14_PriorityOrder ==
    last.op = "load_model" =>
        /\ last.attempts \in {<<>>, <<"SAM3">>, <<"SAM3", "SAM1">>}
        /\ last.attempts = <<"SAM3", "SAM1">> => ~Sam3Initializes(last.env)
        /\ Sam3Initializes(last.env) => last.attempts = <<"SAM3">>
        /\ ActiveBackend =
              IF Sam3Initializes(last.env) THEN "SAM3"
              ELSE IF Sam1Initializes(last.env) THEN "SAM1"
              ELSE "none"
        /\ _sam3_available <=> ActiveBackend # "none"

\* C14 witness: SAM3 failed after its model was built, SAM1 took over.
C14_Witness ==
    /\ last.op = "load_model"
    /\ last.env.sam3 = "processor_error"
    /\ last.attempts = <<"SAM3", "SAM1">>
    /\ ActiveBackend = "SAM1"

\* C15: load_model runs once, at startup; afterwards no request changes
\* _model, _processor or _sam3_available, no candidate is tried again, and a
\* process without an active backend stays without one.
C15_InitializedOnce ==
    [][ /\ last'.op = "load_model" => pc = "startup"
        /\ pc # "startup" =>
            /\ backend' = backend
            /\ pc' = pc
            /\ last'.op \in {"health", "set_image", "segment",
                             "segment_with_text"}
            /\ last'.attempts = <<>>
            /\ ~BackendActive => ~BackendActive'
      ]_vars

\* C15 witness: a process whose candidates all failed has answered a
\* text-prompt request and is still without a backend.
C15_Witness ==
    /\ pc = "serving"
    /\ last.op = "segment_with_text"
    /\ _model = None /\ _processor = None /\ ~_sam3_available
    /\ last.response = HTTPException(503, "Model not loaded")

\* A segment request answered by the fallback with a mask.
FallbackSucceeded(r) ==
    r.op = "segment" /\ r.path = "fallback" /\ r.response.success

\* Squared distance, in hundredths of a squared pixel, between pixel q and a
\* point as supplied (tenths).
SuppliedDistSq(q, pt) ==
    (10 * q[1] - pt[1]) * (10 * q[1] - pt[1])
        + (10 * q[2] - pt[2]) * (10 * q[2] - pt[2])

\* Squared distance between pixel q and the pixel a point truncates to.
TruncatedDistSq(q, pt) ==
    LET x == IF pt[1] >= 0 THEN pt[1] \div 10 ELSE -((-pt[1]) \div 10)
        y == IF pt[2] >= 0 THEN pt[2] \div 10 ELSE -((-pt[2]) \div 10)
    IN (q[1] - x) * (q[1] - x) + (q[2] - y) * (q[2] - y)

Some(pts, P(_)) == \E i \in 1 .. Len(pts) : P(pts[i])

\* C16: the fallback mask includes a pixel exactly when its distance to some
\* positive point, as supplied, is at most 0.15*min(width, height) and its
\* distance to no negative point is at most 0.10*min(width, height).
C16_FallbackDisks ==
    FallbackSucceeded(last) =>
        LET image == decode_base64_image(last.image)
            m == IF image.width <= image.height THEN image.width
                 ELSE image.height
            px == last.response.masks[1].px
        IN \A q \in Pixels(image.width, image.height) :
            (px[q] = 255) <=>
                /\ Some(last.points_positive,
                        LAMBDA pt : 4 * SuppliedDistSq(q, pt) <= 9 * m * m)
                /\ ~Some(last.points_negative,
                         LAMBDA pt : SuppliedDistSq(q, pt) <= m * m)

\* int(m * pct / 100) for a whole m
WholeRadius(m, pct) == (m * pct) \div 100

\* C16 as amended: the fallback mask includes a pixel exactly when its
\* distance to some positive point, truncated to whole pixel coordinates, is
\* at most int(0.15*min(width, height)) and its distance to no truncated
\* negative point is at most int(0.10*min(width, height)); where both radii
\* are whole and every point has whole coordinates (as in the 200x200
\* example, scaled to 20x20) these are the disks of the supplied points with
\* radii 0.15*min and 0.10*min.
C16_TruncatedDisks ==
    FallbackSucceeded(last) =>
        LET image == decode_base64_image(last.image)
            m == IF image.width <= image.height THEN image.width
                 ELSE image.height
            r_pos == WholeRadius(m, 15)
            r_neg == WholeRadius(m, 10)
            px == last.response.masks[1].px
            whole(pts) == \A i \in 1 .. Len(pts) :
                            pts[i][1] % 10 = 0 /\ pts[i][2] % 10 = 0
        IN /\ \A q \in Pixels(image.width, image.height) :
                /\ px[q] \in {0, 255}
                /\ (px[q] = 255) <=>
                    /\ Some(last.points_positive,
                            LAMBDA pt : TruncatedDistSq(q, pt) <= r_pos * r_pos)
                    /\ ~Some(last.points_negative,
                             LAMBDA pt : TruncatedDistSq(q, pt) <= r_neg * r_neg)
           /\ (/\ (m * 15) % 100 = 0 /\ (m * 10) % 100 = 0
               /\ whole(last.points_positive) /\ whole(last.points_negative)) =>
                \A q \in Pixels(image.width, image.height) :
                    (px[q] = 255) <=>
                        /\ Some(last.points_positive,
                                LAMBDA pt : 4 * SuppliedDistSq(q, pt) <= 9 * m * m)
                        /\ ~Some(last.points_negative,
                                 LAMBDA pt : SuppliedDistSq(q, pt) <= m * m)

\* C16 witness: on the 12x10 image (radius int(1.5) = 1) one positive point
\* at (5, 5): the pixel (6, 5) is in the mask, the pixel (6, 6), at distance
\* 1.41, is not.
C16_Witness ==
    /\ FallbackSucceeded(last)
    /\ decode_base64_image(last.image) = ImageC
    /\ last.points_positive = <<(<<50, 50>>)>>
    /\ last.points_negative = <<>>
    /\ last.response.masks[1].px[<<6, 5>>] = 255
    /\ last.response.masks[1].px[<<6, 6>>] = 0

\* The request with its points supplied in the orders f and g.
Reordered(req, f, g) ==
    [req EXCEPT !.points_positive = [i \in 1 .. Len(f) |-> req.points_positive[f[i]]],
                !.points_negative = [i \in 1 .. Len(g) |-> req.points_negative[g[i]]]]

\* An index order that lists the points by x, then y.
SortOrder(pts) ==
    CHOOSE f \in IndexOrders(Len(pts)) :
        \A i \in 1 .. Len(pts) - 1 :
            \/ pts[f[i]][1] < pts[f[i + 1]][1]
            \/ /\ pts[f[i]][1] = pts[f[i + 1]][1]
               /\ pts[f[i]][2] <= pts[f[i + 1]][2]

\* C17: in a fallback mask every pixel within the negative radius of a
\* negative point is excluded, also when it is within the positive radius
\* of a positive point; the pixel a negative point falls on is excluded even
\* if a positive point falls on it too; and the answer does not depend on the
\* order of the points: it is the answer to the same points in sorted order.
C17_NegativeWins ==
    FallbackSucceeded(last) =>
        LET image == decode_base64_image(last.image)
            m == IF image.width <= image.height THEN image.width
                 ELSE image.height
            r_neg == WholeRadius(m, 10)
            px == last.response.masks[1].px
        IN /\ \A q \in Pixels(image.width, image.height) :
                Some(last.points_negative,
                     LAMBDA pt : TruncatedDistSq(q, pt) <= r_neg * r_neg)
                    => px[q] = 0
           /\ \A q \in Pixels(image.width, image.height) :
                Some(last.points_negative,
                     LAMBDA pt : TruncatedDistSq(q, pt) = 0) => px[q] = 0
           /\ generate_fallback_mask(
                    Reordered(RequestOf(last), SortOrder(last.points_positive),
                              SortOrder(last.points_negative)))
                = last.response

\* C17 witness: a positive and a negative point at the same location, after
\* another positive point: the pixel is excluded, the mask is not empty.
C17_Witness ==
    /\ FallbackSucceeded(last)
    /\ decode_base64_image(last.image) = ImageD
    /\ last.points_positive = <<(<<60, 50>>), (<<50, 50>>)>>
    /\ last.points_negative = <<(<<50, 50>>)>>
    /\ last.response.masks[1].px[<<5, 5>>] = 0
    /\ last.response.masks[1].px[<<8, 5>>] = 255

\* C18: a successful fallback response holds exactly one mask, as wide and as
\* high as the image of the request, and the one score 0.5, whatever the
\* number of points and the multimask flag.
C18_OneMaskOfImageSize ==
    FallbackSucceeded(last) =>
        LET image == decode_base64_image(last.image)
        IN /\ Len(last.response.masks) = 1
           /\ last.response.masks[1].width = image.width
           /\ last.response.masks[1].height = image.height
           /\ DOMAIN last.response.masks[1].px =
                    Pixels(image.width, image.height)
           /\ last.response.scores = <<5>>

\* C18 witness: four points and multimask_output on a 12x10 image.
C18_Witness ==
    /\ FallbackSucceeded(last)
    /\ last.multimask_output
    /\ Len(last.points_positive) + Len(last.points_negative) = 4
    /\ decode_base64_image(last.image) = ImageC
    /\ Len(last.response.masks) = 1

\* Which of the outcomes a segment request had: answered by the fallback
\* with a mask ("degraded"), rejected for its image or its empty prompt
\* ("invalid"), failed because a backend call raised ("crash"), answered by
\* the backend ("learned").
OutcomeCase(r) ==
    IF r.op # "segment" THEN "none"
    ELSE IF r.extract = "raised" \/ r.predict = "raised" THEN "crash"
    ELSE IF decode_base64_image(r.image) = Malformed THEN "invalid"
    ELSE IF r.response = NoPointsProvided THEN "invalid"
    ELSE IF FallbackSucceeded(r) THEN "degraded"
    ELSE IF r.predict = "ok" THEN "learned"
    ELSE "none"

\* The form of a response: its HTTP status and success flag, without the
\* free text of message or detail.
ResponseForm(resp) ==
    IF resp.t = "HTTPException"
    THEN IF resp.status_code = 500 THEN "HTTP 500" ELSE "HTTP error"
    ELSE IF resp.success THEN "HTTP 200, success=true"
    ELSE "HTTP 200, success=false"

\* C19: two segment requests that ended in different ones of the cases
\* degraded, invalid and crash are answered with responses of different form.
C19_OutcomesDistinguishable ==
    [][ (/\ OutcomeCase(last) \in {"degraded", "invalid", "crash"}
         /\ OutcomeCase(last') \in {"degraded", "invalid", "crash"}
         /\ OutcomeCase(last) # OutcomeCase(last')) =>
            ResponseForm(last.response) # ResponseForm(last'.response)
      ]_vars

\* C20: whenever segment calls predict, the point array it passes is the
\* positive points followed by the negative points, each list in the order
\* given, the label array is as long, 1 at the index of every positive point
\* and 0 at the index of every negative point, and the multimask flag passed
\* is the one of the request.
C20_PromptArrays ==
    (last.op = "segment" /\ last.predict # "none") =>
        LET n_pos == Len(last.points_positive)
            n_neg == Len(last.points_negative)
        IN /\ Len(last.point_coords) = n_pos + n_neg
           /\ Len(last.point_labels) = n_pos + n_neg
           /\ \A i \in 1 .. n_pos :
                /\ last.point_coords[i] = last.points_positive[i]
                /\ last.point_labels[i] = 1
           /\ \A j \in 1 .. n_neg :
                /\ last.point_coords[n_pos + j] = last.points_negative[j]
                /\ last.point_labels[n_pos + j] = 0
           /\ last.predict_kwargs =
                [multimask_output |-> last.multimask_output]

\* C20 witness: two positive points and one negative point, with the
\* multimask flag set, reached predict.
C20_Witness ==
    /\ last.op = "segment"
    /\ last.predict = "ok"
    /\ last.points_positive = <<(<<25, 7>>), (<<10, 10>>)>>
    /\ last.points_negative = <<(<<10, 10>>)>>
    /\ last.multimask_output
    /\ last.point_coords = <<(<<25, 7>>), (<<10, 10>>), (<<10, 10>>)>>
    /\ last.point_labels = <<1, 1, 0>>
    /\ Len(last.response.masks) = 3

----------------------------------------------------------------------------
(* C21..C26 *)

\* A mask value that is not zero (False, 0, 0.0).
NonZero(dtype, v) == IF dtype = "bool" THEN v ELSE v # 0

\* C21: every pixel of an encoded mask is 0 or 255, and it is 255 exactly
\* when the pixel's value in the mask handed to the encoder is non-zero
\* (stated on the answers with one mask, where the ranking moves nothing).
C21_EncodeNonZero ==
    (last.op = "segment" /\ last.predict = "ok"
            /\ Len(last.out.masks) = 1) =>
        LET mask == last.out.masks[1]
            png == last.response.masks[1]
        IN \A q \in DOMAIN mask.px :
            /\ png.px[q] \in {0, 255}
            /\ (png.px[q] = 255) <=> NonZero(mask.dtype, mask.px[q])

\* The values a mask of whole numbers 0/1 or 0/255 holds, in tenths.
TwoLevel(mask) ==
    \/ mask.dtype = "bool"
    \/ \A q \in DOMAIN mask.px : mask.px[q] \in {0, 10, 2550}

\* C21 as amended: every pixel of an encoded mask is 0 or 255; for a boolean
\* mask it is 255 exactly when the value is True, for a numeric mask exactly
\* when the value is greater than 0.5; for masks that hold only 0 and 1 or
\* 0 and 255 (the synthesizer's, a backend's binary masks) that is exactly
\* when the value is non-zero.  The encoded mask has the size of the mask.
C21_EncodeThreshold ==
    (last.op = "segment" /\ last.predict = "ok"
            /\ Len(last.out.masks) = 1) =>
        LET mask == last.out.masks[1]
            png == last.response.masks[1]
        IN /\ Len(last.response.masks) = 1
           /\ png.width = mask.width /\ png.height = mask.height
           /\ DOMAIN png.px = DOMAIN mask.px
           /\ \A q \in DOMAIN mask.px :
                /\ png.px[q] \in {0, 255}
                /\ (png.px[q] = 255) <=>
                        IF mask.dtype = "bool" THEN mask.px[q]
                        ELSE mask.px[q] > 5
                /\ TwoLevel(mask) =>
                        ((png.px[q] = 255) <=> NonZero(mask.dtype, mask.px[q]))

\* C21 witness: a float mask with the values 0.3, 0.5, 0.6 and 0 was encoded
\* as 0, 0, 255 and 0.
C21_Witness ==
    /\ last.op = "segment" /\ last.predict = "ok"
    /\ last.out.masks[1].dtype = "float32"
    /\ last.out.masks[1].px[<<0, 0>>] = 3
    /\ last.out.masks[1].px[<<1, 0>>] = 5
    /\ last.out.masks[1].px[<<0, 1>>] = 6
    /\ last.out.masks[1].px[<<1, 1>>] = 0
    /\ last.response.masks[1].px[<<0, 0>>] = 0
    /\ last.response.masks[1].px[<<1, 0>>] = 0
    /\ last.response.masks[1].px[<<0, 1>>] = 255
    /\ last.response.masks[1].px[<<1, 1>>] = 0

\* The folder is laid out as per-image pairs: there is no
\* original_image.png, and every file is an image next to its mask or the
\* mask next to its image.
PerImagePairs(dir) ==
    /\ dir # {}
    /\ File("original_image", FALSE, "png") \notin dir
    /\ \A f \in dir :
        /\ f.ext = "png"
        /\ File(f.base, TRUE, "png") \in dir
        /\ File(f.base, FALSE, "png") \in dir

\* C22: with original_image.png in the folder every Object_X_mask.png is
\* paired with original_image.png under the name Object_X; in a folder of
\* per-image pairs every returned pair couples an image with the mask of
\* the same stem, under that stem.
C22_PairsAsDocumented ==
    pc = "done" =>
        /\ File("original_image", FALSE, "png") \in input_dir =>
            \A b \in {"Object_1", "Object_2"} :
                File(b, TRUE, "png") \in input_dir =>
                    \E i \in 1 .. Len(pairs) :
                        pairs[i] = Pair(File("original_image", FALSE, "png"),
                                        File(b, TRUE, "png"), b)
        /\ PerImagePairs(input_dir) =>
            \A i \in 1 .. Len(pairs) :
                /\ pairs[i].image_path \in input_dir
                /\ pairs[i].mask_path \in input_dir
                /\ ~pairs[i].image_path.mask
                /\ pairs[i].mask_path.mask
                /\ pairs[i].mask_path.base = pairs[i].image_path.base
                /\ pairs[i].name = pairs[i].image_path.base

\* C23: whatever request of whatever client ran before (every step of Spec
\* is one whole handler, and any request can follow any other), a segment
\* request that reaches predict has it work from the embedding of its own
\* image: if another image was cached, the embedding is recomputed first, the
\* cache holds the request's fingerprint afterwards, and the masks returned
\* are masks of the request's image.
C23_OwnImageUnderInterleaving ==
    [][ (last'.op = "segment" /\ last'.predict # "none") =>
            LET image == decode_base64_image(last'.image)
            IN /\ image # Malformed
               /\ last'.predict_state = EmbeddingOf(image)
               /\ _current_image_hash # get_image_hash(image) =>
                    last'.extract = "ok"
               /\ _current_image_hash' = get_image_hash(image)
               /\ last'.predict = "ok" =>
                    \A i \in 1 .. Len(last'.response.masks) :
                        /\ last'.response.masks[i].width = image.width
                        /\ last'.response.masks[i].height = image.height
                        /\ DOMAIN last'.response.masks[i].px =
                                Pixels(image.width, image.height)
      ]_vars

\* C23 witness: a segment request for the 3x2 image arrived while the
\* embedding of the 2x2 image of another request was cached, and was
\* answered with a 3x2 mask.
C23_Witness ==
    /\ last.op = "segment"
    /\ last.predict = "ok"
    /\ decode_base64_image(last.image) = ImageA
    /\ last.pre_hash = get_image_hash(ImageB)
    /\ last.extract = "ok"
    /\ last.response.masks[1].width = 3
    /\ last.response.masks[1].height = 2

\* C24: the cached fingerprint is None exactly when the cached embedding is
\* None, and a cached embedding is one the active backend can predict from,
\* computed from the image with the cached fingerprint.
C24_CacheConsistent ==
    /\ (_current_image_hash = None) <=> (_current_image_state = None)
    /\ _current_image_hash # None =>
        IF _processor = SamPredictor
        THEN /\ _current_image_state = PyTrue
             /\ predictor_features # None
             /\ get_image_hash(ImageOf(predictor_features))
                    = _current_image_hash
        ELSE /\ _current_image_state \notin {None, PyTrue}
             /\ get_image_hash(ImageOf(_current_image_state))
                    = _current_image_hash


\* load_model() called any number of times before the server serves: each
\* call meets an environment of its own (a checkpoint may have appeared, a
\* package may have been installed), and a call that raises leaves the
\* globals as they were at the raise.
InitLoad ==
    /\ Init
    /\ segment_anything_ok \in BOOLEAN

load_model ==
    /\ pc = "startup"
    /\ \E env \in LoadEnvs :
        /\ (env.sam1 = "import_error") <=> ~segment_anything_ok
        /\ LET r == load_model_run(_model, _processor, _sam3_available, env)
           IN /\ _model' = r.model
              /\ _processor' = r.processor
              /\ _sam3_available' = r.available
              /\ last' = [NoRequest EXCEPT !.op = "load_model",
                            !.env = env, !.attempts = r.attempts,
                            !.response = IF r.raised
                                         THEN [t |-> "ImportError"]
                                         ELSE [t |-> "bool", v |-> r.returned]]
    /\ UNCHANGED <<pc, segment_anything_ok, cache, batch>>

SpecLoad == InitLoad /\ [][load_model]_vars

\* The model and processor of one backend.
SameBackend ==
    \/ _model = Sam3Model /\ _processor = Sam3Processor
    \/ _model = Sam1Model /\ _processor = SamPredictor

\* C25: after load_model, also after a candidate failed part-way,
\* _sam3_available is true only if _model and _processor are both set and of
\* the same backend; and every call of load_model that returns, the first and
\* the later ones, returns True exactly when _sam3_available is true on
\* return.
C25_LoadModelConsistent ==
    /\ _sam3_available => SameBackend
    /\ (last.op = "load_model" /\ last.response.t = "bool") =>
            (last.response.v <=> _sam3_available)


\* C26: a fallback segment request with at least one negative point and no
\* positive point succeeds with one mask in which every pixel is excluded and
\* the one score 0.5; of the requests with a readable image the fallback
\* rejects only those without any point.
C26_NegativeOnlySucceeds ==
    (last.op = "segment" /\ last.path = "fallback"
        /\ decode_base64_image(last.image) # Malformed) =>
        /\ (last.points_positive = <<>> /\ last.points_negative # <<>>) =>
                /\ last.response.success
                /\ Len(last.response.masks) = 1
                /\ \A q \in DOMAIN last.response.masks[1].px :
                        last.response.masks[1].px[q] = 0
                /\ last.response.scores = <<5>>
        /\ ~last.response.success <=>
                (last.points_positive = <<>> /\ last.points_negative = <<>>)

\* C26 witness: two negative points and no positive point on the 20x20
\* image, answered with an all-excluded mask.
C26_Witness ==
    /\ FallbackSucceeded(last)
    /\ last.points_positive = <<>>
    /\ Len(last.points_negative) = 2
    /\ decode_base64_image(last.image) = ImageD
    /\ \A q \in DOMAIN last.response.masks[1].px :
            last.response.masks[1].px[q] = 0
    /\ last.response.scores = <<5>>

====
